---- MODULE Spec2Model ----
(***************************************************************************)
(* A model of the HomePage component (src/src/pages/HomePage.tsx): the     *)
(* component state, the debounced autocomplete lookup, the two search      *)
(* chains (fetchCityNews, fetchGlobalNews) and the pagination of the       *)
(* article list.                                                           *)
(*                                                                         *)
(* Strings are sequences of one-character strings.  An optional value is   *)
(* the empty tuple (null) or a non-empty tuple.                            *)
(***************************************************************************)
EXTENDS Integers, Sequences, FiniteSets, TLC

VARIABLES
  searchQuery,      \* useState('')            line 48
  cityOptions,      \* useState<string[]>([])  line 49
  news,             \* useState<ArticleDto[]>  line 50
  cityInfo,         \* useState<CityDto|null>  line 51
  error,            \* useState<string|null>   line 52
  loading,          \* useState(false)         line 53
  loadingCities,    \* useState(false)         line 54
  currentPage,      \* useState(1)             line 55
  pending,          \* the debounce timer of debouncedFetchCities: NULL or <<query>>
  quiet,            \* ms since the last call of debouncedFetchCities, while pending
  cityReqs,         \* the fetchCities runs suspended at an await, oldest first
  mounted,          \* the component is mounted (the effect of lines 88-92)
  pc,               \* where the running search chain is suspended
  city,             \* local of fetchCityNews, line 112
  stateName,        \* local of fetchCityNews, line 112
  cityInfoResponse, \* local of fetchCityNews, line 126
  response,         \* local of fetchCityNews (139) / fetchGlobalNews (178)
  fetchLog,         \* the fetch() calls of the latest search handler run, in order
  lastClick,        \* which search handler ran last: "none", "city", "global"
  burst,            \* observed: the values of the input changes since the timer was idle
  invoked,          \* observed: the arguments fetchCities ran with for that burst
  overtaken,        \* observed: per suspended run, <<query>> of a later request answered first
  citiesResponse,   \* observed: the response, line 66, of the latest fetchCities run ended
  stale,            \* observed: the latest run ended was overtaken: <<its query, the other>>
  description,      \* the description of the article being rendered, line 355
  rendered          \* the text rendered for it, lines 355-356

\* the observations of the autocomplete path and the rendering of one
\* description: written only by the specifications that watch them
auxVars == <<burst, invoked, overtaken, citiesResponse, stale, description,
             rendered>>

vars == <<searchQuery, cityOptions, news, cityInfo, error, loading,
          loadingCities, currentPage, pending, quiet, cityReqs, mounted, pc, city,
          stateName, cityInfoResponse, response, fetchLog, lastClick, burst,
          invoked, overtaken, citiesResponse, stale, description, rendered>>

searchVars == <<news, cityInfo, error, loading, currentPage, pc, city,
                stateName, cityInfoResponse, response, fetchLog, lastClick>>

NULL == << >>

ARTICLES_PER_PAGE == 10

\* debounce(fetchCities, 300), line 86
DEBOUNCE_WAIT == 300

----------------------------------------------------------------------------
(* Bounds *)

MaxLen == 4        \* longest query string of the validation specification
MaxPages == 2      \* the news endpoint returns at most MaxPages pages of articles
MaxCityReqs == 1   \* the user types while fewer fetchCities runs are suspended
MaxCityId == 1     \* distinct city-info bodies the server may answer with
MaxArticles == 45  \* longest article list of the pagination specification
MaxBurst == 2      \* input changes watched while one debounce timer runs
MaxOverlap == 2    \* the same, where overlapping requests are watched
MaxDescription == 125  \* longest article description rendered
TickMs == 100      \* the step of the clock of the debounce timer, in ms

----------------------------------------------------------------------------
(* Strings *)

Chars == {"a", "A", ",", " "}

RECURSIVE StringsOfLen(_)
StringsOfLen(n) ==
  IF n = 0 THEN {<< >>}
  ELSE {Append(s, c) : s \in StringsOfLen(n - 1), c \in Chars}

Strings == UNION {StringsOfLen(n) : n \in 0..MaxLen}

\* String.prototype.trim
RECURSIVE TrimStart(_)
TrimStart(s) ==
  IF s # << >> /\ Head(s) = " " THEN TrimStart(Tail(s)) ELSE s

RECURSIVE TrimEnd(_)
TrimEnd(s) ==
  IF s # << >> /\ s[Len(s)] = " " THEN TrimEnd(SubSeq(s, 1, Len(s) - 1)) ELSE s

Trim(s) == TrimEnd(TrimStart(s))

\* String.prototype.toLowerCase
LowerChar(c) == IF c = "A" THEN "a" ELSE c

ToLowerCase(s) == [i \in 1..Len(s) |-> LowerChar(s[i])]

\* String.prototype.includes, for a one-character needle
Includes(s, c) == \E i \in 1..Len(s) : s[i] = c

\* String.prototype.split, for a one-character separator
RECURSIVE Split(_, _)
Split(s, sep) ==
  IF ~Includes(s, sep) THEN <<s>>
  ELSE LET i == CHOOSE k \in 1..Len(s) :
                  s[k] = sep /\ \A j \in 1..(k - 1) : s[j] # sep
       IN <<SubSeq(s, 1, i - 1)>> \o Split(SubSeq(s, i + 1, Len(s)), sep)

\* encodeURIComponent on the characters of the model
EncodeChar(c) ==
  IF c = " " THEN <<"%", "2", "0">>
  ELSE IF c = "," THEN <<"%", "2", "C">>
  ELSE <<c>>

RECURSIVE EncodeURIComponent(_)
EncodeURIComponent(s) ==
  IF s = << >> THEN << >>
  ELSE EncodeChar(Head(s)) \o EncodeURIComponent(Tail(s))

----------------------------------------------------------------------------
(* Messages of setError *)

ErrEmpty == <<"Please enter a city and state.">>
ErrComma ==
  <<"Please enter city and state separated by a comma (e.g., Miami, Florida).">>
ErrInvalid == <<"Invalid city or state name. Please check your input.">>
ErrUnauthorized == <<"Unauthorized: please enter your login and password.">>
ErrGettingNews == <<"Error getting news. Please try again.">>
ErrNetwork == <<"Network error">>

ErrNewsStatus(r) == <<"Error getting news: ", r.status, " ", r.statusText>>
ErrGlobalStatus(r) == <<"Error: ", r.status, " ", r.statusText>>

----------------------------------------------------------------------------
(* What a fetch() can come to.  A request either rejects (transport        *)
(* failure) or resolves with a response; response.json() of a resolved     *)
(* response either yields the body or throws.                              *)

Statuses == {200, 401, 500}

StatusText(s) ==
  IF s = 200 THEN "OK" ELSE IF s = 401 THEN "Unauthorized"
  ELSE "Internal Server Error"

Rejected ==
  [rejected |-> TRUE, status |-> 0, statusText |-> "", jsonOk |-> FALSE,
   body |-> << >>]

Resolved(s, j, b) ==
  [rejected |-> FALSE, status |-> s, statusText |-> StatusText(s),
   jsonOk |-> j, body |-> b]

\* the value of a local that no fetch has been assigned to yet
NoResponse ==
  [rejected |-> FALSE, status |-> 0, statusText |-> "", jsonOk |-> FALSE,
   body |-> << >>]

\* Response.ok
Ok(r) == ~r.rejected /\ r.status >= 200 /\ r.status <= 299

\* a response whose body has not been read yet: what fetch() resolves with,
\* before response.json() settles
Unread(r) == [r EXCEPT !.jsonOk = FALSE, !.body = << >>]

\* the responses without a usable body: every status, and a 2xx whose body
\* does not parse
Bodyless == {Resolved(s, FALSE, << >>) : s \in Statuses}

\* /api/cities/{city}/{state}: a CityDto, reduced to its id
CityDto(i) == <<[id |-> i]>>

CityInfoOutcomes ==
  {Rejected} \cup Bodyless \cup {Resolved(200, TRUE, CityDto(i)) : i \in 1..MaxCityId}

\* /api/news/...: article i of a body, as the server sends it; the odd ones
\* carry publishedAtString, the even ones publishedAt only
RawArticle(i) ==
  [title |-> i,
   publishedAt |-> IF i % 2 = 0 THEN "2024-01-01T00:00:00Z" ELSE "",
   publishedAtString |-> IF i % 2 = 1 THEN "January 1, 2024" ELSE ""]

NewsBody(n) == [i \in 1..n |-> RawArticle(i)]

\* the article counts the news endpoint answers with: around every page edge
NewsCounts ==
  {n \in 0..(MaxPages * ARTICLES_PER_PAGE) : n % ARTICLES_PER_PAGE \in {0, 1}}

NewsOutcomes ==
  {Rejected} \cup Bodyless \cup {Resolved(200, TRUE, NewsBody(n)) : n \in NewsCounts}

\* /api/cities?query=: a list of suggestions
S_Aa == <<"A", ",", "a">>
S_aa == <<"a", ",", "a">>
S_a == <<"a">>

OptionLists == {<< >>, <<S_Aa>>, <<S_a, S_aa, S_Aa>>}

\* a non-success answer whose body parses as a list all the same
CitiesErrorBodies == {Resolved(s, TRUE, <<S_a>>) : s \in Statuses \ {200}}

CitiesOutcomes ==
  {Rejected} \cup Bodyless \cup CitiesErrorBodies
    \cup {Resolved(200, TRUE, o) : o \in OptionLists}

\* what the user types into the input in the component specification
Queries == {<< >>, S_a, S_aa}

----------------------------------------------------------------------------
(* fetchCityNews, lines 94-117: the canonical location string and its      *)
(* validation                                                              *)

\* cityOptions.find(...): the first option equal to the query up to case,
\* undefined (here the empty string, falsy as well) if there is none
MatchedOption(options, query) ==
  LET hits == {i \in 1..Len(options) :
                 ToLowerCase(options[i]) = ToLowerCase(query)}
  IN IF hits = {} THEN << >>
     ELSE options[CHOOSE i \in hits : \A j \in hits : i <= j]

\* matchedOption || searchQuery
CityState(options, query) ==
  IF MatchedOption(options, query) # << >> THEN MatchedOption(options, query)
  ELSE query

\* cityState.split(',').map((s) => s.trim())
Parts(cityState) ==
  LET raw == Split(cityState, ",") IN [i \in 1..Len(raw) |-> Trim(raw[i])]

\* const [city, stateName] = ...: the first two parts, the rest is dropped
CityOf(cityState) == Parts(cityState)[1]
StateNameOf(cityState) ==
  IF Len(Parts(cityState)) >= 2 THEN Parts(cityState)[2] ELSE << >>

\* fetchCityNews without the includes(',') check of line 105
ValidationError_NoCommaCheck(options, query) ==
  IF Trim(query) = << >> THEN ErrEmpty
  ELSE IF CityOf(CityState(options, query)) = << >>
          \/ StateNameOf(CityState(options, query)) = << >> THEN ErrInvalid
  ELSE NULL

\* the error of the early returns of lines 95-117, NULL when the input passes
ValidationError(options, query) ==
  IF Trim(query) = << >> THEN ErrEmpty
  ELSE IF ~Includes(CityState(options, query), ",") THEN ErrComma
  ELSE IF CityOf(CityState(options, query)) = << >>
          \/ StateNameOf(CityState(options, query)) = << >> THEN ErrInvalid
  ELSE NULL

CityInfoUrl(c, s) == <<"/api/cities/", EncodeURIComponent(c), "/", EncodeURIComponent(s)>>
NewsUrl(c, s) == <<"/api/news/", EncodeURIComponent(c), "/", EncodeURIComponent(s)>>
GlobalNewsUrl == <<"/api/news/global">>

----------------------------------------------------------------------------
(* The continuations of the search chains                                  *)

\* whether the try block of fetchCityNews is left by an exception at the
\* city-info step: fetch rejected, or response.json() threw (lines 126-137)
CityInfoThrows(r) == r.rejected \/ (Ok(r) /\ ~r.jsonOk)

\* a city-info step that never stores the body
CityInfoAfter_Never(r, prev) == prev

\* setCityInfo(cityData) only when cityInfoResponse.ok (lines 134-137)
CityInfoAfter(r, prev) == IF Ok(r) /\ r.jsonOk THEN r.body ELSE prev

\* publishedAt: article.publishedAtString || article.publishedAt (line 154)
NormalizeArticle(a) ==
  [a EXCEPT !.publishedAt =
     IF a.publishedAtString # "" THEN a.publishedAtString ELSE a.publishedAt]

\* setNews(data.map(...)) only when response.ok (lines 149-156, 183-190)
NewsAfter(r, prev) ==
  IF Ok(r) /\ r.jsonOk THEN [i \in 1..Len(r.body) |-> NormalizeArticle(r.body[i])]
  ELSE prev

\* the news step without the 401 branch of line 157
CityNewsError_No401(r, prev) ==
  IF r.rejected THEN ErrGettingNews
  ELSE IF Ok(r) THEN (IF r.jsonOk THEN prev ELSE ErrGettingNews)
  ELSE ErrNewsStatus(r)

\* the news step with "if" for the "else if" of line 157: a 2xx response
\* falls through to the status error
CityNewsError_Fallthrough(r, prev) ==
  IF r.rejected THEN ErrGettingNews
  ELSE IF Ok(r) /\ ~r.jsonOk THEN ErrGettingNews
  ELSE IF r.status = 401 THEN ErrUnauthorized
  ELSE ErrNewsStatus(r)

\* the error after the news step of fetchCityNews (lines 149-166)
CityNewsError(r, prev) ==
  IF r.rejected THEN ErrGettingNews
  ELSE IF Ok(r) THEN (IF r.jsonOk THEN prev ELSE ErrGettingNews)
  ELSE IF r.status = 401 THEN ErrUnauthorized
  ELSE ErrNewsStatus(r)

\* the error after the news step of fetchGlobalNews (lines 183-198)
GlobalNewsError(r, prev) ==
  IF r.rejected THEN ErrNetwork
  ELSE IF Ok(r) THEN (IF r.jsonOk THEN prev ELSE ErrNetwork)
  ELSE IF r.status = 401 THEN ErrUnauthorized
  ELSE ErrGlobalStatus(r)

\* setLoading(false) in the success branch only
LoadingAfter_OnlyOnSuccess(r) == ~(Ok(r) /\ r.jsonOk)

\* a search chain that throws at the city-info step leaves loading set
LoadingAfter_NoFinally(r) == r.rejected \/ (Ok(r) /\ ~r.jsonOk)

\* finally { setLoading(false) } (lines 166-168, 198-200): on every outcome
LoadingAfter(r) == FALSE

\* a search that keeps the city-info of the previous one
CityInfoOnSearch_Keep(prev) == prev

\* setCityInfo(null) when a search starts (lines 122, 175)
CityInfoOnSearch(prev) == NULL

\* buttons that stay enabled during a search
ButtonDisabled_Never(isLoading) == FALSE

\* disabled={loading} of both buttons (lines 271, 282)
ButtonDisabled(isLoading) == isLoading

\* a search that starts from page 0
PageOnSearch_Zero(prev) == 0

\* a search that keeps the page of the previous result
PageOnSearch_Keep(prev) == prev

\* setCurrentPage(1) when a search starts (lines 123, 176)
PageOnSearch(prev) == 1

----------------------------------------------------------------------------
(* Result renderer, lines 222-225                                          *)

\* Math.floor for Math.ceil
TotalPages_Floor(n) == n \div ARTICLES_PER_PAGE

\* Math.ceil(n / ARTICLES_PER_PAGE)
TotalPages(n) ==
  IF n % ARTICLES_PER_PAGE = 0 THEN n \div ARTICLES_PER_PAGE
  ELSE n \div ARTICLES_PER_PAGE + 1

IndexOfLastArticle(page) == page * ARTICLES_PER_PAGE
IndexOfFirstArticle(page) == IndexOfLastArticle(page) - ARTICLES_PER_PAGE

Min(a, b) == IF a < b THEN a ELSE b

\* Array.prototype.slice(first, last) for first, last >= 0 (0-based, last
\* excluded, both clamped to the length)
Slice(list, first, last) ==
  LET lo == Min(first, Len(list))
      hi == Min(last, Len(list))
  IN IF lo >= hi THEN << >> ELSE SubSeq(list, lo + 1, hi)

CurrentArticles(list, page) ==
  Slice(list, IndexOfFirstArticle(page), IndexOfLastArticle(page))

\* the cut of line 355 and the threshold of line 356
DESCRIPTION_LIMIT == 120

\* String.prototype.substring(start, end) for 0 <= start <= end
Substring(str, start, end) == Slice(str, start, end)

\* article.description?.substring(0, 120), line 355: nothing when the
\* article has no description
DescriptionText(d) ==
  IF d = NULL THEN << >> ELSE Substring(d[1], 0, DESCRIPTION_LIMIT)

\* a suffix that is also appended at exactly 120 characters
DescriptionSuffix_AtLimit(d) ==
  IF d # NULL /\ Len(d[1]) >= DESCRIPTION_LIMIT THEN <<".", ".", ".">> ELSE << >>

\* article.description?.length > 120 ? '...' : '', line 356: three full stops
DescriptionSuffix(d) ==
  IF d # NULL /\ Len(d[1]) > DESCRIPTION_LIMIT THEN <<".", ".", ".">> ELSE << >>

\* the text of the Typography of lines 354-357
RenderDescription(d) == DescriptionText(d) \o DescriptionSuffix(d)

----------------------------------------------------------------------------
(* The component after its first render, lines 48-56                       *)

\* nothing observed, nothing rendered yet
AuxInit ==
  /\ burst = << >>
  /\ invoked = << >>
  /\ overtaken = << >>
  /\ citiesResponse = NoResponse
  /\ stale = NULL
  /\ description = << >>
  /\ rendered = NULL

Init ==
  /\ searchQuery = << >>
  /\ cityOptions = << >>
  /\ news = << >>
  /\ cityInfo = NULL
  /\ error = NULL
  /\ loading = FALSE
  /\ loadingCities = FALSE
  /\ currentPage = 1
  /\ pending = NULL
  /\ quiet = 0
  /\ mounted = TRUE
  /\ cityReqs = << >>
  /\ pc = "idle"
  /\ city = << >>
  /\ stateName = << >>
  /\ cityInfoResponse = NoResponse
  /\ response = NoResponse
  /\ fetchLog = << >>
  /\ lastClick = "none"
  /\ AuxInit

----------------------------------------------------------------------------
(* Query input handler                                                     *)

\* Autocomplete.onInputChange, lines 240-243: the query is shown at once and
\* the debounced lookup is (re)scheduled with the trimmed value
InputChange(newInputValue) ==
  /\ mounted
  /\ searchQuery' = newInputValue
  /\ pending' = <<Trim(newInputValue)>>
  /\ quiet' = 0
  /\ UNCHANGED <<cityOptions, loadingCities, cityReqs, mounted>>
  /\ UNCHANGED searchVars

\* Autocomplete.onChange, lines 244-250: a suggestion is taken verbatim
OptionChange(newValue) ==
  /\ mounted
  /\ searchQuery' = newValue
  /\ UNCHANGED <<cityOptions, loadingCities, cityReqs, pending, quiet, mounted>>
  /\ UNCHANGED searchVars

\* a timer that fires at once, whatever the wait
TimerDue_AtOnce(q) == TRUE

\* the timer of debounce(fetchCities, 300), line 86, is due once 300 ms have
\* passed without a call (trailing edge, no maxWait)
TimerDue(q) == q >= DEBOUNCE_WAIT

\* d ms pass while the timer runs; a due timer fires before more time passes
Tick(d) ==
  /\ pending # NULL
  /\ ~TimerDue(quiet)
  /\ quiet' = Min(quiet + d, DEBOUNCE_WAIT)
  /\ UNCHANGED <<searchQuery, cityOptions, loadingCities, cityReqs, pending, mounted>>
  /\ UNCHANGED searchVars

\* fetchCities without the early return of lines 59-62
ShortCircuits_Never(query) == FALSE

\* if (!query.trim()), line 59
ShortCircuits(query) == Trim(query) = << >>

\* a fetchCities run suspended at the await of line 66: its query, and no
\* response yet
Awaiting(query) == [query |-> query, response |-> NoResponse]

\* a fetch that aborts the request issued before it
ReqsAfterFetch_Abort(reqs, query) == <<Awaiting(query)>>

\* the fetchCities runs suspended after fetch() of lines 66-71: the earlier
\* ones stay as they are
ReqsAfterFetch(reqs, query) == Append(reqs, Awaiting(query))

\* The debounce timer fires and fetchCities(query) runs up to its await,
\* lines 58-71
FetchCities ==
  /\ pending # NULL
  /\ TimerDue(quiet)
  /\ pending' = NULL
  /\ quiet' = 0
  /\ LET query == pending[1] IN
       IF ShortCircuits(query)
       THEN /\ cityOptions' = << >>
            /\ UNCHANGED <<loadingCities, cityReqs>>
       ELSE /\ loadingCities' = TRUE
            /\ cityReqs' = ReqsAfterFetch(cityReqs, query)
            /\ UNCHANGED cityOptions
  /\ UNCHANGED <<searchQuery, mounted>>
  /\ UNCHANGED searchVars

\* fetchCities without the response.ok test of line 72
CityOptionsAfter_NoOkCheck(r) == IF ~r.rejected /\ r.jsonOk THEN r.body ELSE << >>

\* what setCityOptions gets when the autocomplete request ends, lines 72-80
CityOptionsAfter(r) == IF Ok(r) /\ r.jsonOk THEN r.body ELSE << >>

RemoveAt(seq, i) == SubSeq(seq, 1, i - 1) \o SubSeq(seq, i + 1, Len(seq))

\* The rest of the i-th suspended fetchCities run once its response is r and
\* no await is left: setCityOptions of line 74, 76 or 80 and the finally of
\* lines 81-83
CitiesEnd(i, r) ==
  /\ cityOptions' = CityOptionsAfter(r)
  /\ loadingCities' = FALSE
  /\ cityReqs' = RemoveAt(cityReqs, i)

\* The fetch of the i-th suspended run ends with r, lines 66-72: a 2xx
\* response suspends the run again at response.json(), line 73; a rejected
\* fetch or another status ends it, lines 75-83
CitiesResolve(i, r) ==
  /\ i \in 1..Len(cityReqs)
  /\ cityReqs[i].response = NoResponse
  /\ IF Ok(r)
     THEN /\ cityReqs' = [cityReqs EXCEPT ![i].response = Unread(r)]
          /\ UNCHANGED <<cityOptions, loadingCities>>
     ELSE CitiesEnd(i, r)
  /\ UNCHANGED <<searchQuery, pending, quiet, mounted>>
  /\ UNCHANGED searchVars

\* response.json() of the i-th suspended run settles and makes its response
\* r, lines 73-74 and 78-83: the body is stored, or the catch empties the list
CitiesParsed(i, r) ==
  /\ i \in 1..Len(cityReqs)
  /\ cityReqs[i].response # NoResponse
  /\ Ok(r) /\ Unread(r) = cityReqs[i].response
  /\ CitiesEnd(i, r)
  /\ UNCHANGED <<searchQuery, pending, quiet, mounted>>
  /\ UNCHANGED searchVars

\* The component unmounts: the cleanup of the effect of lines 88-92 cancels
\* the debounce timer; the runs suspended at an await go on
Unmount ==
  /\ mounted
  /\ mounted' = FALSE
  /\ pending' = NULL
  /\ quiet' = 0
  /\ UNCHANGED <<searchQuery, cityOptions, loadingCities, cityReqs>>
  /\ UNCHANGED searchVars

----------------------------------------------------------------------------
(* Search orchestrator                                                     *)

\* 'Get News' (disabled while loading, line 271): fetchCityNews up to its
\* first await, lines 94-133
FetchCityNews ==
  /\ mounted
  /\ ~ButtonDisabled(loading)
  /\ lastClick' = "city"
  /\ cityInfoResponse' = NoResponse
  /\ response' = NoResponse
  /\ IF ValidationError(cityOptions, searchQuery) # NULL
     THEN /\ error' = ValidationError(cityOptions, searchQuery)
          /\ fetchLog' = << >>
          /\ city' = << >>
          /\ stateName' = << >>
          /\ UNCHANGED <<news, cityInfo, loading, currentPage, pc>>
     ELSE /\ city' = CityOf(CityState(cityOptions, searchQuery))
          /\ stateName' = StateNameOf(CityState(cityOptions, searchQuery))
          /\ error' = NULL
          /\ loading' = TRUE
          /\ news' = << >>
          /\ cityInfo' = CityInfoOnSearch(cityInfo)
          /\ currentPage' = PageOnSearch(currentPage)
          /\ fetchLog' = <<CityInfoUrl(city', stateName')>>
          /\ pc' = "awaitCityInfo"
  /\ UNCHANGED <<searchQuery, cityOptions, loadingCities, pending, quiet, cityReqs, mounted>>
  /\ UNCHANGED auxVars

\* The city-info step of fetchCityNews once its response is r and no await
\* of the step is left: the catch and the finally of lines 164-168 when the
\* step throws, else lines 136-147 up to the await of the news fetch
CityInfoEnd(r) ==
  IF CityInfoThrows(r)
  THEN /\ error' = ErrGettingNews
       /\ loading' = LoadingAfter(r)
       /\ pc' = "idle"
       /\ UNCHANGED <<cityInfo, fetchLog>>
  ELSE /\ cityInfo' = CityInfoAfter(r, cityInfo)
       /\ fetchLog' = Append(fetchLog, NewsUrl(city, stateName))
       /\ pc' = "awaitNews"
       /\ UNCHANGED <<error, loading>>

\* The city-info fetch ends with r, lines 126-134: a 2xx response suspends
\* the chain again at cityInfoResponse.json(), line 135
CityInfoResolve(r) ==
  /\ pc = "awaitCityInfo"
  /\ IF Ok(r)
     THEN /\ cityInfoResponse' = Unread(r)
          /\ pc' = "parseCityInfo"
          /\ UNCHANGED <<error, loading, cityInfo, fetchLog>>
     ELSE /\ cityInfoResponse' = r
          /\ CityInfoEnd(r)
  /\ UNCHANGED <<news, currentPage, city, stateName, response, lastClick>>
  /\ UNCHANGED <<searchQuery, cityOptions, loadingCities, pending, quiet, cityReqs, mounted>>
  /\ UNCHANGED auxVars

\* cityInfoResponse.json() settles and makes the response r, lines 135-147
\* or 164-168
CityInfoParsed(r) ==
  /\ pc = "parseCityInfo"
  /\ Ok(r) /\ Unread(r) = cityInfoResponse
  /\ cityInfoResponse' = r
  /\ CityInfoEnd(r)
  /\ UNCHANGED <<news, currentPage, city, stateName, response, lastClick>>
  /\ UNCHANGED <<searchQuery, cityOptions, loadingCities, pending, quiet, cityReqs, mounted>>
  /\ UNCHANGED auxVars

\* The news step of fetchCityNews once its response is r and no await is
\* left, lines 151-168
NewsEnd(r) ==
  /\ news' = NewsAfter(r, news)
  /\ error' = CityNewsError(r, error)
  /\ loading' = LoadingAfter(r)
  /\ pc' = "idle"

\* The news fetch of fetchCityNews ends with r, lines 139-149: a 2xx
\* response suspends the chain again at response.json(), line 150
NewsResolve(r) ==
  /\ pc = "awaitNews"
  /\ IF Ok(r)
     THEN /\ response' = Unread(r)
          /\ pc' = "parseNews"
          /\ UNCHANGED <<news, error, loading>>
     ELSE /\ response' = r
          /\ NewsEnd(r)
  /\ UNCHANGED <<cityInfo, currentPage, city, stateName, cityInfoResponse,
                 fetchLog, lastClick>>
  /\ UNCHANGED <<searchQuery, cityOptions, loadingCities, pending, quiet, cityReqs, mounted>>
  /\ UNCHANGED auxVars

\* response.json() of fetchCityNews settles and makes the response r, lines
\* 150-156 or 164-168
NewsParsed(r) ==
  /\ pc = "parseNews"
  /\ Ok(r) /\ Unread(r) = response
  /\ response' = r
  /\ NewsEnd(r)
  /\ UNCHANGED <<cityInfo, currentPage, city, stateName, cityInfoResponse,
                 fetchLog, lastClick>>
  /\ UNCHANGED <<searchQuery, cityOptions, loadingCities, pending, quiet, cityReqs, mounted>>
  /\ UNCHANGED auxVars

\* 'Load Global News' (disabled while loading, line 282): fetchGlobalNews up
\* to its await, lines 171-181
FetchGlobalNews ==
  /\ mounted
  /\ ~ButtonDisabled(loading)
  /\ lastClick' = "global"
  /\ cityInfoResponse' = NoResponse
  /\ response' = NoResponse
  /\ city' = << >>
  /\ stateName' = << >>
  /\ loading' = TRUE
  /\ error' = NULL
  /\ news' = << >>
  /\ cityInfo' = CityInfoOnSearch(cityInfo)
  /\ currentPage' = PageOnSearch(currentPage)
  /\ fetchLog' = <<GlobalNewsUrl>>
  /\ pc' = "awaitGlobal"
  /\ UNCHANGED <<searchQuery, cityOptions, loadingCities, pending, quiet, cityReqs, mounted>>
  /\ UNCHANGED auxVars

\* fetchGlobalNews once its response is r and no await is left, lines
\* 185-200
GlobalEnd(r) ==
  /\ news' = NewsAfter(r, news)
  /\ error' = GlobalNewsError(r, error)
  /\ loading' = LoadingAfter(r)
  /\ pc' = "idle"

\* The global news fetch ends with r, lines 178-183: a 2xx response
\* suspends the chain again at response.json(), line 184
GlobalResolve(r) ==
  /\ pc = "awaitGlobal"
  /\ IF Ok(r)
     THEN /\ response' = Unread(r)
          /\ pc' = "parseGlobal"
          /\ UNCHANGED <<news, error, loading>>
     ELSE /\ response' = r
          /\ GlobalEnd(r)
  /\ UNCHANGED <<cityInfo, currentPage, city, stateName, cityInfoResponse,
                 fetchLog, lastClick>>
  /\ UNCHANGED <<searchQuery, cityOptions, loadingCities, pending, quiet, cityReqs, mounted>>
  /\ UNCHANGED auxVars

\* response.json() of fetchGlobalNews settles and makes the response r,
\* lines 184-190 or 196-200
GlobalParsed(r) ==
  /\ pc = "parseGlobal"
  /\ Ok(r) /\ Unread(r) = response
  /\ response' = r
  /\ GlobalEnd(r)
  /\ UNCHANGED <<cityInfo, currentPage, city, stateName, cityInfoResponse,
                 fetchLog, lastClick>>
  /\ UNCHANGED <<searchQuery, cityOptions, loadingCities, pending, quiet, cityReqs, mounted>>
  /\ UNCHANGED auxVars

----------------------------------------------------------------------------
(* Result renderer                                                         *)

\* Pagination.onChange, lines 376-384: the control is rendered only when
\* there are articles and more than one page, and offers pages 1..count
PageChange(page) ==
  /\ mounted
  /\ Len(news) > 0
  /\ TotalPages(Len(news)) > 1
  /\ page \in 1..TotalPages(Len(news))
  /\ currentPage' = page
  /\ UNCHANGED <<news, cityInfo, error, loading, pc, city, stateName,
                 cityInfoResponse, response, fetchLog, lastClick>>
  /\ UNCHANGED <<searchQuery, cityOptions, loadingCities, pending, quiet, cityReqs, mounted>>
  /\ UNCHANGED auxVars

----------------------------------------------------------------------------
(* The component: every handler and every continuation                     *)

\* the user types while fewer than MaxCityReqs fetchCities runs are
\* suspended: the runs the timer starts are bounded by what is typed
DoInputChange ==
  /\ Len(cityReqs) < MaxCityReqs
  /\ \E q \in Queries : InputChange(q)
  /\ UNCHANGED auxVars

DoFetchCities ==
  /\ FetchCities
  /\ UNCHANGED auxVars

\* in the component specification the clock jumps to the moment the timer is due
DoTick ==
  /\ Tick(DEBOUNCE_WAIT)
  /\ UNCHANGED auxVars

DoOptionChange ==
  /\ \E i \in 1..Len(cityOptions) : OptionChange(cityOptions[i])
  /\ UNCHANGED auxVars

DoCitiesResolve ==
  /\ \E i \in 1..Len(cityReqs) : \E r \in CitiesOutcomes : CitiesResolve(i, r)
  /\ UNCHANGED auxVars

DoCitiesParsed ==
  /\ \E i \in 1..Len(cityReqs) : \E r \in CitiesOutcomes : CitiesParsed(i, r)
  /\ UNCHANGED auxVars

DoUnmount ==
  /\ Unmount
  /\ UNCHANGED auxVars

DoCityInfoResolve == \E r \in CityInfoOutcomes : CityInfoResolve(r)
DoCityInfoParsed == \E r \in CityInfoOutcomes : CityInfoParsed(r)
DoNewsResolve == \E r \in NewsOutcomes : NewsResolve(r)
DoNewsParsed == \E r \in NewsOutcomes : NewsParsed(r)
DoGlobalResolve == \E r \in NewsOutcomes : GlobalResolve(r)
DoGlobalParsed == \E r \in NewsOutcomes : GlobalParsed(r)
DoPageChange == \E p \in 1..TotalPages(Len(news)) : PageChange(p)

Next ==
  \/ DoInputChange
  \/ DoOptionChange
  \/ DoTick
  \/ DoFetchCities
  \/ DoCitiesResolve
  \/ DoCitiesParsed
  \/ FetchCityNews
  \/ DoCityInfoResolve
  \/ DoCityInfoParsed
  \/ DoNewsResolve
  \/ DoNewsParsed
  \/ FetchGlobalNews
  \/ DoGlobalResolve
  \/ DoGlobalParsed
  \/ DoPageChange
  \/ DoUnmount


Spec == Init /\ [][Next]_vars

(* The search chains under the assumption that every request issued is     *)
(* answered or fails and every body read is parsed or fails: no            *)
(* continuation waits forever                                              *)
Fairness ==
  /\ WF_vars(DoCityInfoResolve)
  /\ WF_vars(DoCityInfoParsed)
  /\ WF_vars(DoNewsResolve)
  /\ WF_vars(DoNewsParsed)
  /\ WF_vars(DoGlobalResolve)
  /\ WF_vars(DoGlobalParsed)

LiveSpec == Init /\ [][Next]_vars /\ Fairness

----------------------------------------------------------------------------
(* fetchCityNews on every query string up to MaxLen, with every suggestion *)
(* list, and nothing else going on: the query and the suggestions stay as  *)
(* they were when 'Get News' was clicked                                   *)

InitValidate ==
  /\ searchQuery \in Strings
  /\ cityOptions \in OptionLists
  /\ news = << >>
  /\ cityInfo = NULL
  /\ error = NULL
  /\ loading = FALSE
  /\ loadingCities = FALSE
  /\ currentPage = 1
  /\ pending = NULL
  /\ quiet = 0
  /\ mounted = TRUE
  /\ cityReqs = << >>
  /\ pc = "idle"
  /\ city = << >>
  /\ stateName = << >>
  /\ cityInfoResponse = NoResponse
  /\ response = NoResponse
  /\ fetchLog = << >>
  /\ lastClick = "none"
  /\ AuxInit

NextValidate ==
  \/ FetchCityNews
  \/ DoCityInfoResolve
  \/ DoCityInfoParsed
  \/ DoNewsResolve
  \/ DoNewsParsed


SpecValidate == InitValidate /\ [][NextValidate]_vars

----------------------------------------------------------------------------
(* The result renderer on every article list up to MaxArticles: the state  *)
(* after a global news search that returned the list, then page changes    *)

InitPage ==
  /\ searchQuery = << >>
  /\ cityOptions = << >>
  /\ \E n \in 0..MaxArticles :
       /\ response = Resolved(200, TRUE, NewsBody(n))
       /\ news = NewsAfter(response, << >>)
  /\ cityInfo = NULL
  /\ error = NULL
  /\ loading = FALSE
  /\ loadingCities = FALSE
  /\ currentPage = 1
  /\ pending = NULL
  /\ quiet = 0
  /\ mounted = TRUE
  /\ cityReqs = << >>
  /\ pc = "idle"
  /\ city = << >>
  /\ stateName = << >>
  /\ cityInfoResponse = NoResponse
  /\ fetchLog = <<GlobalNewsUrl>>
  /\ lastClick = "global"
  /\ AuxInit

NextPage == DoPageChange

SpecPage == InitPage /\ [][NextPage]_vars

----------------------------------------------------------------------------
(* The debounce watched: what is typed, with spaces around it, while one   *)
(* timer runs, the clock of the timer in steps of TickMs, and what         *)
(* fetchCities is run with                                                 *)

\* what the user types: blank, padded, and a full location
Typed == {<<" ">>, <<"a", " ">>, S_aa}

\* onInputChange, lines 240-243, and the values typed while the timer runs;
\* the user types while fewer than MaxCityReqs fetchCities runs are suspended
ObsInputChange ==
  /\ Len(cityReqs) < MaxCityReqs
  /\ pending = NULL \/ Len(burst) < MaxBurst
  /\ \E v \in Typed :
       /\ InputChange(v)
       /\ burst' = IF pending = NULL THEN <<v>> ELSE Append(burst, v)
  /\ invoked' = IF pending = NULL THEN << >> ELSE invoked
  /\ UNCHANGED <<overtaken, citiesResponse, stale, description, rendered>>

ObsTick ==
  /\ Tick(TickMs)
  /\ UNCHANGED auxVars

\* the timer fires, lines 58-71, and the argument fetchCities runs with
ObsFetchCities ==
  /\ FetchCities
  /\ invoked' = Append(invoked, pending[1])
  /\ UNCHANGED <<burst, overtaken, citiesResponse, stale, description, rendered>>

NextAuto ==
  \/ ObsInputChange
  \/ ObsTick
  \/ ObsFetchCities
  \/ DoCitiesResolve
  \/ DoCitiesParsed
  \/ DoUnmount

SpecAuto == Init /\ [][NextAuto]_vars

----------------------------------------------------------------------------
(* Overlapping autocomplete requests watched: up to MaxOverlap fetchCities *)
(* runs suspended at once, their responses arriving in any order           *)

\* the user types while fewer than MaxOverlap fetchCities runs are suspended
RaceInputChange ==
  /\ Len(cityReqs) < MaxOverlap
  /\ \E v \in Typed : InputChange(v)
  /\ UNCHANGED auxVars

\* the timer fires, lines 58-71: a new run is not overtaken yet
RaceFetchCities ==
  /\ FetchCities
  /\ overtaken' = IF Len(cityReqs') > Len(cityReqs)
                  THEN Append(overtaken, NULL) ELSE overtaken
  /\ UNCHANGED <<burst, invoked, citiesResponse, stale, description, rendered>>

\* <<query of the i-th suspended run, query of the request that overtook
\* it>>, if the response of a request issued after its own arrived before
\* its own
StaleQuery(i) ==
  IF overtaken[i] # NULL THEN <<cityReqs[i].query, overtaken[i][1]>> ELSE NULL

\* the response of the i-th request arrives, lines 66-72: the older
\* requests still waiting for theirs are overtaken by it; the run may end
RaceCitiesResolve ==
  /\ \E i \in 1..Len(cityReqs) : \E r \in CitiesOutcomes :
       /\ CitiesResolve(i, r)
       /\ LET flags == [j \in 1..Len(overtaken) |->
                         IF /\ j < i
                            /\ cityReqs[j].response = NoResponse
                            /\ overtaken[j] = NULL
                         THEN <<cityReqs[i].query>> ELSE overtaken[j]]
          IN IF Ok(r)
             THEN /\ overtaken' = flags
                  /\ UNCHANGED stale
             ELSE /\ overtaken' = RemoveAt(flags, i)
                  /\ stale' = StaleQuery(i)
  /\ UNCHANGED <<burst, invoked, citiesResponse, description, rendered>>

\* the body of the i-th response is parsed and the run ends, lines 73-83
RaceCitiesParsed ==
  /\ \E i \in 1..Len(cityReqs) : \E r \in CitiesOutcomes :
       /\ CitiesParsed(i, r)
       /\ stale' = StaleQuery(i)
       /\ overtaken' = RemoveAt(overtaken, i)
  /\ UNCHANGED <<burst, invoked, citiesResponse, description, rendered>>

NextRace ==
  \/ RaceInputChange
  \/ DoTick
  \/ RaceFetchCities
  \/ RaceCitiesResolve
  \/ RaceCitiesParsed

SpecRace == Init /\ [][NextRace]_vars

----------------------------------------------------------------------------
(* The autocomplete answers watched next to a global news search: what the *)
(* end of an autocomplete request does to the state the search wrote       *)

\* the response of a request arrives, lines 66-72, and is kept if the run
\* ends with it
ObsCitiesAnswer ==
  /\ \E i \in 1..Len(cityReqs) : \E r \in CitiesOutcomes :
       /\ CitiesResolve(i, r)
       /\ citiesResponse' = IF Ok(r) THEN citiesResponse ELSE r
  /\ UNCHANGED <<burst, invoked, overtaken, stale, description, rendered>>

\* the body of a response is parsed and the run ends, lines 73-83
ObsCitiesStored ==
  /\ \E i \in 1..Len(cityReqs) : \E r \in CitiesOutcomes :
       /\ CitiesParsed(i, r)
       /\ citiesResponse' = r
  /\ UNCHANGED <<burst, invoked, overtaken, stale, description, rendered>>

NextSilent ==
  \/ DoInputChange
  \/ DoTick
  \/ DoFetchCities
  \/ ObsCitiesAnswer
  \/ ObsCitiesStored
  \/ FetchGlobalNews
  \/ DoGlobalResolve
  \/ DoGlobalParsed

SpecSilent == Init /\ [][NextSilent]_vars

----------------------------------------------------------------------------
(* The description of an article, lines 354-357, for every length up to    *)
(* MaxDescription and for an article without one: the state after a global *)
(* news search that returned the article, then its card is rendered        *)

\* a description of n characters, no two neighbours alike
DescriptionOf(n) == [i \in 1..n |-> IF i % 2 = 1 THEN "a" ELSE " "]

Descriptions == {NULL} \cup {<<DescriptionOf(n)>> : n \in 0..MaxDescription}

InitRender ==
  /\ searchQuery = << >>
  /\ cityOptions = << >>
  /\ response = Resolved(200, TRUE, NewsBody(1))
  /\ news = NewsAfter(response, << >>)
  /\ cityInfo = NULL
  /\ error = NULL
  /\ loading = FALSE
  /\ loadingCities = FALSE
  /\ currentPage = 1
  /\ pending = NULL
  /\ quiet = 0
  /\ mounted = TRUE
  /\ cityReqs = << >>
  /\ pc = "idle"
  /\ city = << >>
  /\ stateName = << >>
  /\ cityInfoResponse = NoResponse
  /\ fetchLog = <<GlobalNewsUrl>>
  /\ lastClick = "global"
  /\ burst = << >>
  /\ invoked = << >>
  /\ overtaken = << >>
  /\ citiesResponse = NoResponse
  /\ stale = NULL
  /\ description \in Descriptions
  /\ rendered = NULL

\* the card of the article is rendered, lines 354-357
Render ==
  /\ rendered = NULL
  /\ rendered' = <<RenderDescription(description)>>
  /\ UNCHANGED <<searchQuery, cityOptions, loadingCities, pending, quiet, cityReqs, mounted>>
  /\ UNCHANGED searchVars
  /\ UNCHANGED <<burst, invoked, overtaken, citiesResponse, stale, description>>

NextRender == Render

SpecRender == InitRender /\ [][NextRender]_vars

----------------------------------------------------------------------------
(* Properties                                                              *)

ValidationErrors == {ErrEmpty, ErrComma, ErrInvalid}

\* the number of commas of a string
RECURSIVE Commas(_)
Commas(s) ==
  IF s = << >> THEN 0
  ELSE (IF Head(s) = "," THEN 1 ELSE 0) + Commas(Tail(s))

\* the latest fetchCityNews run got past validation
CitySearchStarted == lastClick = "city" /\ fetchLog # << >>

\* the latest fetchCityNews run has ended, one way or another
CitySearchEnded == lastClick = "city" /\ pc = "idle"

\* a step that sets loading is the start of a search: its first request
\* has just been issued
SearchStarts ==
  /\ pc = "idle"
  /\ \/ fetchLog' = <<CityInfoUrl(city', stateName')>>
     \/ fetchLog' = <<GlobalNewsUrl>>

\* C1: every search chain clears the loading flag when it ends: if every
\* request issued resolves or rejects, loading becomes false again, on every
\* path, and it stays false until the next search starts.
C1_LoadingCleared ==
  /\ loading ~> ~loading
  /\ [][(~loading /\ loading') => SearchStarts]_vars

\* a fetchCityNews chain ended by a body that does not parse, loading cleared
C1_Witness ==
  /\ CitySearchEnded
  /\ Ok(response) /\ ~response.jsonOk
  /\ error = ErrGettingNews
  /\ ~loading

\* C2: one run of fetchCityNews on a valid input issues exactly two
\* requests whatever their outcomes: the city-info request, then, once that
\* one has completed, the news request.
C2_ExactlyTwoRequests ==
  CitySearchStarted =>
    /\ Len(fetchLog) <= 2
    /\ fetchLog[1] = CityInfoUrl(city, stateName)
    /\ Len(fetchLog) = 2 =>
         /\ fetchLog[2] = NewsUrl(city, stateName)
         /\ cityInfoResponse # NoResponse
    /\ pc = "idle" => Len(fetchLog) = 2

\* C3 as stated: for every query without a comma, fetchCityNews sets the
\* comma-format error and issues no request.
C3_Original ==
  (lastClick = "city" /\ ~Includes(searchQuery, ","))
    => (error = ErrComma /\ fetchLog = << >>)

\* C3: for every query without a comma, fetchCityNews issues no request;
\* it sets the comma-format error, except that an empty or whitespace-only
\* query gets "Please enter a city and state." instead.
C3_NoCommaNoRequest ==
  (lastClick = "city" /\ ~Includes(searchQuery, ","))
    => /\ fetchLog = << >>
       /\ pc = "idle" /\ ~loading
       /\ error = IF Trim(searchQuery) = << >> THEN ErrEmpty ELSE ErrComma

\* a non-empty query without a comma, rejected with the comma-format error
C3_Witness ==
  /\ lastClick = "city"
  /\ Trim(searchQuery) # << >>
  /\ ~Includes(searchQuery, ",")
  /\ error = ErrComma
  /\ fetchLog = << >>

\* the city-info request of the latest fetchCityNews run failed: a
\* transport failure or a non-success status
CityInfoFailed ==
  /\ CitySearchStarted
  /\ cityInfoResponse # NoResponse
  /\ cityInfoResponse.rejected \/ ~Ok(cityInfoResponse)

\* C4: a failure of the city-info lookup is never surfaced: cityInfo stays
\* null, no error is set by it, and the error after the search is the one
\* the outcome of the news request gives.
C4_CityInfoFailureSilent ==
  CityInfoFailed =>
    /\ cityInfo = NULL
    /\ pc = "awaitNews" => error = NULL
    /\ pc = "idle" =>
         /\ response # NoResponse
         /\ error = CityNewsError(response, NULL)

\* C5: when the news endpoint answers 401 during fetchCityNews, the search
\* ends with the unauthorized message, whatever the city-info fetch gave.
C5_UnauthorizedMessage ==
  (CitySearchEnded /\ ~response.rejected /\ response.status = 401)
    => error = ErrUnauthorized

\* the news endpoint answered 401 after the city-info endpoint answered 500
C5_Witness ==
  /\ CitySearchEnded
  /\ response.status = 401
  /\ cityInfoResponse.status = 500
  /\ error = ErrUnauthorized

\* C6 as stated: whenever an operation has ended with error set, loading is
\* false, news is empty and cityInfo is null.
C6_Original ==
  (error # NULL /\ pc = "idle")
    => (~loading /\ news = << >> /\ cityInfo = NULL)

\* C6: whenever error is set, no search is running and loading is false; if
\* the error is the outcome of a request (401, another status, a transport
\* or parse failure) news is empty and cityInfo is null or what the city-info
\* request of that same run returned; a validation error changes nothing but
\* the error: the articles, the city-info and the page of an earlier search
\* stay.
C6_ErrorState ==
  /\ [](error # NULL =>
          /\ ~loading /\ pc = "idle"
          /\ error \notin ValidationErrors =>
               /\ news = << >>
               /\ cityInfo \in {NULL, cityInfoResponse.body})
  /\ [][(FetchCityNews /\ error' \in ValidationErrors)
          => UNCHANGED <<news, cityInfo, currentPage, loading>>]_vars

\* a validation error shown above the articles of an earlier search
C6_Witness ==
  /\ error \in ValidationErrors
  /\ news # << >>
  /\ ~loading

\* C7: when the news endpoint answers 401 after the city-info fetch of the
\* same run succeeded, cityInfo holds that city's data after the search.
C7_CityInfoKeptOn401 ==
  (CitySearchEnded /\ response.status = 401
     /\ Ok(cityInfoResponse) /\ cityInfoResponse.jsonOk)
    => (cityInfo # NULL /\ cityInfo = cityInfoResponse.body)

\* the 401 of the news endpoint after a successful city-info fetch
C7_Witness ==
  /\ CitySearchEnded
  /\ response.status = 401
  /\ Ok(cityInfoResponse) /\ cityInfoResponse.jsonOk
  /\ cityInfo = CityDto(1)
  /\ error = ErrUnauthorized

\* exactly one comma, with non-empty trimmed text on each side
OneCommaValid(s) ==
  /\ Commas(s) = 1
  /\ \A i \in 1..Len(Split(s, ",")) : Trim(Split(s, ",")[i]) # << >>

\* C8: fetchCityNews takes a location string as valid only if it has
\* exactly one comma with non-empty trimmed text on each side; every other
\* string ends in a validation error with no request issued.
C8_ExactlyOneComma ==
  lastClick = "city" =>
    /\ OneCommaValid(searchQuery) => fetchLog # << >>
    /\ ~OneCommaValid(searchQuery) =>
         (fetchLog = << >> /\ error \in ValidationErrors)

\* C9: in every reachable state, if totalPages > 0 then
\* 1 <= currentPage <= totalPages, with totalPages = ceil(articles / 10).
C9_PageInRange ==
  TotalPages(Len(news)) > 0 =>
    (1 <= currentPage /\ currentPage <= TotalPages(Len(news)))

\* the last page of a two-page result, after a search and a page change
C9_Witness ==
  /\ Len(news) = ARTICLES_PER_PAGE + 1
  /\ currentPage = 2
  /\ TotalPages(Len(news)) = 2
  /\ lastClick = "city"

\* C10: for every article count N and every page p in 1..totalPages,
\* totalPages is ceil(N / 10) and the visible slice is the articles at the
\* indices [(p-1)*10, p*10) in API order, min(10, N - 10*(p-1)) of them.
C10_PageSlice ==
  LET N == Len(news)
      T == TotalPages(N)
  IN /\ T * ARTICLES_PER_PAGE >= N
     /\ (T - 1) * ARTICLES_PER_PAGE < N \/ (N = 0 /\ T = 0)
     /\ \A p \in 1..T :
          LET visible == CurrentArticles(news, p)
              k == Min(ARTICLES_PER_PAGE, N - ARTICLES_PER_PAGE * (p - 1))
          IN /\ Len(visible) = k
             /\ \A i \in 1..k :
                  /\ visible[i] = news[(p - 1) * ARTICLES_PER_PAGE + i]
                  /\ visible[i].title = (p - 1) * ARTICLES_PER_PAGE + i

\* the short last page of a list that does not fill its pages
C10_Witness ==
  /\ Len(news) = 25
  /\ currentPage = 3
  /\ Len(CurrentArticles(news, currentPage)) = 5


\* C11: in every reachable state loading is true if and only if a search
\* chain is in flight, that is, suspended on a request it has issued or on
\* the body of its response; a fetchCityNews run that failed validation has
\* not set it.
C11_LoadingIffInFlight ==
  /\ loading <=> pc # "idle"
  /\ pc # "idle" => fetchLog # << >>
  /\ pc \in {"awaitNews", "awaitGlobal"} => response = NoResponse
  /\ pc \in {"parseNews", "parseGlobal"} => Ok(response)
  /\ (lastClick = "city" /\ fetchLog = << >>) => (~loading /\ pc = "idle")

\* the news request of a fetchCityNews chain is outstanding, loading shown
C11_Witness ==
  /\ loading
  /\ pc = "awaitNews"
  /\ Len(fetchLog) = 2

\* C13: from the moment fetchGlobalNews is invoked until the next
\* fetchCityNews run, cityInfo is null and no city-info request is issued,
\* whatever the news response is.
C13_GlobalNeverCityInfo ==
  lastClick = "global" =>
    /\ cityInfo = NULL
    /\ fetchLog = <<GlobalNewsUrl>>
    /\ cityInfoResponse = NoResponse

\* a global news search that ended with articles and without city-info
C13_Witness ==
  /\ lastClick = "global"
  /\ pc = "idle"
  /\ Len(news) > 0
  /\ cityInfo = NULL

\* C18: at most one search chain is in flight: a fetchCityNews or
\* fetchGlobalNews run starts only when no chain is suspended, because the
\* buttons are disabled while loading is true.
C18_OneChainAtATime ==
  /\ [](pc # "idle" => loading)
  /\ [][(FetchCityNews \/ FetchGlobalNews) => (pc = "idle" /\ ~loading)]_vars

\* a global news chain in flight, both buttons disabled
C18_Witness ==
  /\ pc = "awaitGlobal"
  /\ lastClick = "global"
  /\ ButtonDisabled(loading)

\* C19: in every reachable state where loading is true, news is empty,
\* currentPage is 1 and error is null, and no step taken while the search
\* is running changes any of the three.
C19_StateWhileLoading ==
  /\ [](loading => (news = << >> /\ currentPage = 1 /\ error = NULL))
  /\ [][(loading /\ loading') => UNCHANGED <<news, currentPage, error>>]_vars

\* the user types while the city-info request of a search is outstanding
C19_Witness ==
  /\ loading
  /\ pc = "awaitCityInfo"
  /\ pending # NULL
  /\ news = << >> /\ currentPage = 1 /\ error = NULL

Last(seq) == seq[Len(seq)]

\* C12 as stated: the input changes made while one debounce timer runs lead
\* to exactly one run of fetchCities: none while the timer runs, and once
\* the timer is gone one run with the trimmed value of the last change
C12_Original ==
  burst # << >> =>
    IF pending # NULL THEN invoked = << >>
    ELSE invoked = <<Trim(Last(burst))>>

\* C12: the input changes made while one debounce timer runs lead to at most
\* one run of fetchCities, with the trimmed value of the last change and only
\* after 300 ms without a change: none while the timer runs, exactly one
\* once the timer is gone if the component is still mounted then, and none
\* if the component unmounts while the timer runs
C12_OneFetchPerBurst ==
  /\ [](burst # << >> =>
          IF pending # NULL THEN invoked = << >>
          ELSE IF mounted THEN invoked = <<Trim(Last(burst))>>
          ELSE invoked \in {<< >>, <<Trim(Last(burst))>>})
  /\ [][(invoked' # invoked /\ invoked' # << >>)
          => (quiet >= DEBOUNCE_WAIT /\ mounted)]_vars
  /\ [][(pending # NULL /\ ~mounted')
          => (pending' = NULL /\ invoked' = << >>)]_vars

\* two changes within the wait, then one run with the trimmed second value
C12_Witness ==
  /\ mounted
  /\ pending = NULL
  /\ burst = <<S_aa, <<"a", " ">>>>
  /\ invoked = <<S_a>>
  /\ cityReqs = <<Awaiting(S_a)>>

\* C14: when fetchCities runs with a query that is empty once trimmed, no
\* request is issued and the suggestion list becomes empty
C14_BlankQueryShortCircuits ==
  [][(Len(invoked') > Len(invoked) /\ Trim(Last(invoked')) = << >>)
       => (cityReqs' = cityReqs /\ cityOptions' = << >>)]_vars

\* a single space was typed and fetchCities ran with the empty string
C14_Witness ==
  /\ mounted
  /\ burst = <<<<" ">>>>
  /\ invoked = <<<< >>>>
  /\ cityOptions = << >>
  /\ cityReqs = << >>

\* C15: when an autocomplete request is rejected or answered with a
\* non-success status, the suggestion list becomes empty and error, news,
\* cityInfo, loading and currentPage stay as they were
C15_FailureSilent ==
  [][(Len(cityReqs') < Len(cityReqs) /\ ~Ok(citiesResponse'))
       => /\ cityOptions' = << >>
          /\ UNCHANGED <<error, news, cityInfo, loading, currentPage>>]_vars

C15_Witness ==
  /\ citiesResponse \in CitiesErrorBodies
  /\ cityReqs = << >>
  /\ cityOptions = << >>
  /\ error = ErrUnauthorized

\* the one character U+2026, HORIZONTAL ELLIPSIS
Ellipsis == "U+2026"

\* C16 as stated: a description of at most 120 characters is rendered
\* unchanged, a longer one as its first 120 characters followed by the
\* single character U+2026
C16_Original ==
  (rendered # NULL /\ description # NULL) =>
    LET d == description[1] IN
      IF Len(d) <= 120 THEN rendered[1] = d
      ELSE rendered[1] = Append(SubSeq(d, 1, 120), Ellipsis)

\* C16: a description of at most 120 characters is rendered unchanged, a
\* longer one as its first 120 characters followed by three full stops
C16_Truncation ==
  (rendered # NULL /\ description # NULL) =>
    LET d == description[1] IN
      IF Len(d) <= 120 THEN rendered[1] = d
      ELSE rendered[1] = SubSeq(d, 1, 120) \o <<".", ".", ".">>

C16_Witness ==
  /\ description # NULL
  /\ Len(description[1]) = 121
  /\ rendered # NULL
  /\ Len(rendered[1]) = 123
  /\ rendered[1][121] = "."

\* C17: a suspended fetchCities run is never cancelled by a newer one: the
\* list of runs changes only by a new run added after the others, by the
\* response of one run arriving, or by one run ending; so the response to
\* an older query can arrive after the response to a newer one and end up
\* in the suggestion list
C17_NoCancellation ==
  [][\/ cityReqs' = cityReqs
     \/ /\ Len(cityReqs') = Len(cityReqs) + 1
        /\ SubSeq(cityReqs', 1, Len(cityReqs)) = cityReqs
     \/ /\ Len(cityReqs') = Len(cityReqs)
        /\ \E i \in 1..Len(cityReqs) :
             /\ cityReqs[i].response = NoResponse
             /\ cityReqs' = [cityReqs EXCEPT ![i].response = cityReqs'[i].response]
     \/ \E i \in 1..Len(cityReqs) : cityReqs' = RemoveAt(cityReqs, i)]_vars

\* the run for "a" ended after the response for the newer "a,a" had arrived,
\* and its list is the one shown
C17_Witness ==
  /\ stale = <<S_a, S_aa>>
  /\ cityReqs = << >>
  /\ cityOptions # << >>

\* C20: whenever at least one autocomplete request is in flight,
\* loadingCities is true, also when requests overlap and one of them ends
\* before the others
C20_LoadingCitiesWhileInFlight == Len(cityReqs) > 0 => loadingCities

====
